---- MODULE Spec2Model ----
(***************************************************************************)
(* Model of gomock/internal/calldo/validate.go: the check that the         *)
(* function handed to Call.Do (doFunc, the substitute) can stand in for    *)
(* the mocked method (callFunc, the declared signature).                   *)
(*                                                                         *)
(* A reflect.Type that is not a function is modelled by its Go type        *)
(* string ("int", "[]interface{}", "map[int]string", ...): in the universe *)
(* below two types are identical exactly when their strings are equal.     *)
(* A function type is a record [in, out, variadic]; in and out are the     *)
(* parameter and result type lists (Go indexes them from 0, the sequences  *)
(* here from 1).                                                           *)
(***************************************************************************)
EXTENDS Integers, Sequences, FiniteSets, TLC

\* doType: the type of the function handed to Do; methodType: the type of
\* the mocked method (Call.methodType); pc: "ready" before the validation
\* and "done" after it; err: the error the validation returned.
VARIABLES doType, methodType, pc, err

vars == <<doType, methodType, pc, err>>

(* ---------------------------------------------------------------------- *)
(* Bounds of the model.                                                    *)
(* ---------------------------------------------------------------------- *)

\* Largest number of parameters of a function in the ordering and variadic
\* specifications.
MaxIn == 2

\* Largest number of parameters of a function in the specifications that
\* range over the richer type universes.
MaxInTypes == 1

\* Largest number of results of a function.
MaxOut == 1

(* ---------------------------------------------------------------------- *)
(* reflect.Type: the types the tests and the specification use.            *)
(* ---------------------------------------------------------------------- *)

\* map[K]E, as Go prints it.
MapOf(k, e) == "map[" \o k \o "]" \o e

\* []E, as Go prints it.
SliceOf(e) == "[]" \o e

SliceElems == {"int", "string", "interface{}", "error"}

MapKeys == {"int", "interface{}", "error"}

MapElems == {"int", "string", "interface{}", "error"}

SliceTypes == {SliceOf(e) : e \in SliceElems}

MapTypes == {MapOf(k, e) : k \in MapKeys, e \in MapElems}

\* reflect.Type.Kind()
Kind(t) ==
    CASE t \in {"int", "string", "bool"} -> t
      [] t = "MyInt" -> "int"
      [] t \in {"a", "b"} -> "struct"
      [] t \in {"interface{}", "error"} -> "interface"
      [] t \in SliceTypes -> "slice"
      [] t \in MapTypes -> "map"

\* The key type of each map type.
KeyTable ==
    [t \in MapTypes |-> CHOOSE k \in MapKeys : \E e \in MapElems : t = MapOf(k, e)]

\* The element type of each slice and map type.
ElemTable ==
    [t \in SliceTypes \cup MapTypes |->
        IF t \in SliceTypes
        THEN CHOOSE e \in SliceElems : t = SliceOf(e)
        ELSE CHOOSE e \in MapElems : \E k \in MapKeys : t = MapOf(k, e)]

\* reflect.Type.Key() of a map type.
Key(t) == KeyTable[t]

\* reflect.Type.Elem() of a slice or map type.
Elem(t) == ElemTable[t]

\* Whether type t has the methods of interface type u. interface{} has no
\* methods; error has Error() string, which no other type of the universe
\* has (a has Name(), b has Name() and Foo()).
Implements(t, u) == u = "interface{}" \/ (u = "error" /\ t = "error")

\* reflect.Type.ConvertibleTo(u): identical types convert, types of kind
\* int convert to one another and to string, and any type converts to an
\* interface it implements. No other two distinct types of the universe
\* share an underlying type.
ConvertibleTo(t, u) ==
    \/ t = u
    \/ (Kind(t) = "int" /\ Kind(u) \in {"int", "string"})
    \/ (Kind(u) = "interface" /\ Implements(t, u))

NumIn(f) == Len(f.in)

NumOut(f) == Len(f.out)

\* reflect.Type.In(i), i counted from 0.
In(f, i) == f.in[i + 1]

\* reflect.Type.Out(i), i counted from 0.
Out(f, i) == f.out[i + 1]

IsVariadic(f) == f.variadic

(* ---------------------------------------------------------------------- *)
(* Errors. An error is a record: class tells which message was built,     *)
(* phase and pos which wrapper ("input argument at %d", "return argument  *)
(* at %d") or position the message names, part the "map key" or "map      *)
(* element" qualifier, want and got the two %v (or %d) operands.           *)
(* ---------------------------------------------------------------------- *)

Nil == [class |-> "nil", phase |-> "", pos |-> -1, part |-> "",
        want |-> "", got |-> ""]

Errorf(class, part, want, got) ==
    [class |-> class, phase |-> "", pos |-> -1, part |-> part,
     want |-> want, got |-> got]

\* errors.Wrap(e, "map key") and errors.Wrap(e, "map element")
Wrap(e, part) == [e EXCEPT !.part = part]

\* fmt.Errorf("input argument at %d: %s", i, e) and
\* errors.Wrapf(e, "return argument at %d", i)
WrapAt(e, phase, i) == [e EXCEPT !.phase = phase, !.pos = i]

(* ---------------------------------------------------------------------- *)
(* validate.go                                                             *)
(* ---------------------------------------------------------------------- *)

\* Variant: the substitute's element must be the interface, and the
\* declared element convertible to it.
validateVariadicArgReversed(lastIdx, doFunc, callFunc) ==
    IF In(doFunc, lastIdx - 1) # In(callFunc, lastIdx - 1)
    THEN IF Kind(In(doFunc, lastIdx - 1)) # "slice"
         THEN FALSE
         ELSE LET callElem == Elem(In(callFunc, lastIdx - 1))
                  doElem == Elem(In(doFunc, lastIdx - 1))
              IN  IF Kind(doElem) # "interface"
                  THEN FALSE
                  ELSE ConvertibleTo(callElem, doElem)
    ELSE TRUE

\* Variant: only the identical slice type is accepted.
validateVariadicArgExact(lastIdx, doFunc, callFunc) ==
    In(doFunc, lastIdx - 1) = In(callFunc, lastIdx - 1)

\* Variant: identical types take the same path as differing ones.
validateVariadicArgNoShortcut(lastIdx, doFunc, callFunc) ==
    IF Kind(In(doFunc, lastIdx - 1)) # "slice"
    THEN FALSE
    ELSE LET callElem == Elem(In(callFunc, lastIdx - 1))
             doElem == Elem(In(doFunc, lastIdx - 1))
         IN  IF Kind(callElem) # "interface"
             THEN FALSE
             ELSE ConvertibleTo(doElem, callElem)

validateVariadicArg(lastIdx, doFunc, callFunc) ==
    IF In(doFunc, lastIdx - 1) # In(callFunc, lastIdx - 1)
    THEN IF Kind(In(doFunc, lastIdx - 1)) # "slice"
         THEN FALSE
         ELSE LET callElem == Elem(In(callFunc, lastIdx - 1))
                  doElem == Elem(In(doFunc, lastIdx - 1))
              IN  IF Kind(callElem) # "interface"
                  THEN FALSE
                  ELSE ConvertibleTo(doElem, callElem)
    ELSE TRUE

\* Variant: the interface type itself is required.
validateInterfaceArgExact(doArg, callArg) ==
    IF doArg # callArg
    THEN Errorf("NotConvertible", "", callArg, doArg)
    ELSE Nil

validateInterfaceArg(doArg, callArg) ==
    IF ~ConvertibleTo(doArg, callArg)
    THEN Errorf("NotConvertible", "", callArg, doArg)
    ELSE Nil

validateMapKey(doKey, callKey) ==
    IF Kind(callKey) = "interface"
    THEN LET e == validateInterfaceArg(doKey, callKey)
         IN  IF e # Nil THEN Wrap(e, "map key") ELSE Nil
    ELSE IF doKey # callKey
         THEN Errorf("TypeMismatch", "map key", callKey, doKey)
         ELSE Nil

validateMapElem(doElem, callElem) ==
    IF Kind(callElem) = "interface"
    THEN LET e == validateInterfaceArg(doElem, callElem)
         IN  IF e # Nil THEN Wrap(e, "map element") ELSE Nil
    ELSE IF doElem # callElem
         THEN Errorf("TypeMismatch", "map element", callElem, doElem)
         ELSE Nil

\* Variant: the element types are not compared.
validateMapArgKeyOnly(doArg, callArg) ==
    validateMapKey(Key(doArg), Key(callArg))

validateMapArg(doArg, callArg) ==
    LET k == validateMapKey(Key(doArg), Key(callArg))
    IN  IF k # Nil
        THEN k
        ELSE validateMapElem(Elem(doArg), Elem(callArg))

\* Variant: outside maps, only the kinds are compared.
validateArgKindOnly(doArg, callArg) ==
    IF Kind(callArg) = "interface"
    THEN validateInterfaceArg(doArg, callArg)
    ELSE IF Kind(callArg) # Kind(doArg)
         THEN Errorf("KindMismatch", "", Kind(callArg), Kind(doArg))
         ELSE IF Kind(callArg) = "map"
              THEN validateMapArg(doArg, callArg)
              ELSE Nil

\* Variant: the kinds are not compared before the types.
validateArgNoKindCheck(doArg, callArg) ==
    IF Kind(callArg) = "interface"
    THEN validateInterfaceArg(doArg, callArg)
    ELSE IF Kind(callArg) = "map" /\ Kind(doArg) = "map"
         THEN validateMapArg(doArg, callArg)
         ELSE IF doArg # callArg
              THEN Errorf("TypeMismatch", "", callArg, doArg)
              ELSE Nil

validateArg(doArg, callArg) ==
    IF Kind(callArg) = "interface"
    THEN validateInterfaceArg(doArg, callArg)
    ELSE IF Kind(callArg) # Kind(doArg)
         THEN Errorf("KindMismatch", "", Kind(callArg), Kind(doArg))
         ELSE IF Kind(callArg) = "map"
              THEN validateMapArg(doArg, callArg)
              ELSE IF doArg # callArg
                   THEN Errorf("TypeMismatch", "", callArg, doArg)
                   ELSE Nil

\* Variant: the variadic argument is validated first only if the
\* substitute is variadic too.
HasVariadicBoth(doFunc, callFunc) == IsVariadic(callFunc) /\ IsVariadic(doFunc)

\* Whether the function has a variadic argument to validate first.
HasVariadic(doFunc, callFunc) == IsVariadic(callFunc)

\* Variant: only a substitute with too few arguments is refused.
NumInTooFew(doFunc, callFunc) == NumIn(doFunc) < NumIn(callFunc)

\* The check of the number of arguments.
NumInDiffers(doFunc, callFunc) == NumIn(doFunc) # NumIn(callFunc)

\* The check of the number of return values.
NumOutDiffers(doFunc, callFunc) == NumOut(doFunc) # NumOut(callFunc)

\* for i := 0; i < lastIdx; i++ { ... validateArg(doFunc.In(i), callFunc.In(i)) }
RECURSIVE validateIns(_, _, _, _)
validateIns(doFunc, callFunc, i, lastIdx) ==
    IF i < lastIdx
    THEN LET e == validateArg(In(doFunc, i), In(callFunc, i))
         IN  IF e # Nil
             THEN WrapAt(e, "input", i)
             ELSE validateIns(doFunc, callFunc, i + 1, lastIdx)
    ELSE Nil

\* for i := 0; i < callFunc.NumOut(); i++ { ... validateArg(doFunc.Out(i), callFunc.Out(i)) }
RECURSIVE validateOuts(_, _, _)
validateOuts(doFunc, callFunc, i) ==
    IF i < NumOut(callFunc)
    THEN LET e == validateArg(Out(doFunc, i), Out(callFunc, i))
         IN  IF e # Nil
             THEN WrapAt(e, "return", i)
             ELSE validateOuts(doFunc, callFunc, i + 1)
    ELSE Nil

\* The second half of ValidateInputAndOutputSig: the return values.
validateReturns(doFunc, callFunc) ==
    IF NumOutDiffers(doFunc, callFunc)
    THEN [Errorf("ArityMismatch", "", ToString(NumOut(callFunc)),
                 ToString(NumOut(doFunc))) EXCEPT !.phase = "return"]
    ELSE validateOuts(doFunc, callFunc, 0)

\* Variant: the return values are validated before the arguments.
validateRestReturnsFirst(doFunc, callFunc, lastIdx) ==
    LET e == validateReturns(doFunc, callFunc)
    IN  IF e # Nil THEN e ELSE validateIns(doFunc, callFunc, 0, lastIdx)

\* The loop over the arguments, then the return values.
validateRest(doFunc, callFunc, lastIdx) ==
    LET e == validateIns(doFunc, callFunc, 0, lastIdx)
    IN  IF e # Nil THEN e ELSE validateReturns(doFunc, callFunc)

ValidateInputAndOutputSig(doFunc, callFunc) ==
    IF NumInDiffers(doFunc, callFunc)
    THEN [Errorf("ArityMismatch", "", ToString(NumIn(callFunc)),
                 ToString(NumIn(doFunc))) EXCEPT !.phase = "input"]
    ELSE LET lastIdx == NumIn(callFunc)
         IN  IF HasVariadic(doFunc, callFunc)
             THEN IF ~validateVariadicArg(lastIdx, doFunc, callFunc)
                  THEN [Errorf("VariadicMismatch", "",
                               In(callFunc, lastIdx - 1),
                               In(doFunc, lastIdx - 1))
                        EXCEPT !.phase = "input", !.pos = lastIdx - 1]
                  ELSE validateRest(doFunc, callFunc, lastIdx - 1)
             ELSE validateRest(doFunc, callFunc, lastIdx)

(* ---------------------------------------------------------------------- *)
(* The function types a specification ranges over.                         *)
(* ---------------------------------------------------------------------- *)

SeqsUpTo(S, n) == UNION {[1..k -> S] : k \in 0..n}

\* A func type is variadic only if its last parameter is a slice.
FuncTypes(paramTypes, resultTypes, maxIn) ==
    {f \in [in : SeqsUpTo(paramTypes, maxIn),
            out : SeqsUpTo(resultTypes, MaxOut),
            variadic : BOOLEAN] :
        f.variadic => (NumIn(f) > 0 /\ Kind(In(f, NumIn(f) - 1)) = "slice")}

ResultTypes == {"bool", "error"}

VariadicTypes == {"int", "[]int", "[]interface{}", "[]error"}

OrderTypes == {"int", "[]int", "map[int]string", "map[interface{}]int"}

\* MyInt stands for a defined type whose underlying type is int
\* (type MyInt int); a and b are the structs of the tests.
StrictTypes ==
    {"int", "MyInt", "string", "a", "b", "interface{}", "error",
     "[]int", "[]string", "[]interface{}", "map[int]string"}

MapResultTypes == {"map[int]string", "map[interface{}]int"}

InitOver(paramTypes, resultTypes, maxIn) ==
    /\ doType \in FuncTypes(paramTypes, resultTypes, maxIn)
    /\ methodType \in FuncTypes(paramTypes, resultTypes, maxIn)
    /\ pc = "ready"
    /\ err = Nil

\* Call.Do(f): the signature of f is validated against the mocked method's.
Validate ==
    /\ pc = "ready"
    /\ err' = ValidateInputAndOutputSig(doType, methodType)
    /\ pc' = "done"
    /\ UNCHANGED <<doType, methodType>>

Next == Validate

\* Functions whose last parameter may be variadic, of up to MaxIn parameters.
Init == InitOver(VariadicTypes, ResultTypes, MaxIn)

Spec == Init /\ [][Next]_vars

\* Functions over scalars, slices and maps, of up to MaxIn parameters.
InitOrder == InitOver(OrderTypes, ResultTypes, MaxIn)

SpecOrder == InitOrder /\ [][Next]_vars

\* Functions over the named types, slices and a map.
InitTypes == InitOver(StrictTypes, ResultTypes, MaxInTypes)

SpecTypes == InitTypes /\ [][Next]_vars

\* Functions whose parameters and results are maps.
InitMaps == InitOver(MapTypes, MapResultTypes, MaxInTypes)

SpecMaps == InitMaps /\ [][Next]_vars

(* ---------------------------------------------------------------------- *)
(* Vocabulary of the properties.                                           *)
(* ---------------------------------------------------------------------- *)

Done == pc = "done"

SameNumIn == NumIn(doType) = NumIn(methodType)

SameNumOut == NumOut(doType) = NumOut(methodType)

\* The position of the declared signature's last parameter.
LastPos == NumIn(methodType) - 1

DeclaredLast == In(methodType, LastPos)

SubLast == In(doType, LastPos)

\* The type of one argument of the declared variadic parameter.
DeclaredElem == Elem(DeclaredLast)

\* The validation got as far as the declared variadic parameter.
VariadicChecked == Done /\ SameNumIn /\ IsVariadic(methodType)

VariadicRejected == err.class = "VariadicMismatch"

\* The parameter positions both signatures have.
AllInPositions == {i \in 0..LastPos : i < NumIn(doType)}

\* The parameter positions other than the declared variadic one.
InPositions ==
    {i \in AllInPositions : ~(IsVariadic(methodType) /\ i = LastPos)}

\* The result positions both signatures have.
OutPositions == {j \in 0..(NumOut(methodType) - 1) : j < NumOut(doType)}

\* The failure reported is the one of the argument at (phase, i).
ErrAt(phase, i) ==
    /\ err.phase = phase
    /\ err.pos = i
    /\ err.class \notin {"ArityMismatch", "VariadicMismatch"}

\* The validation accepted input position i and went on.
PassedInput(i) ==
    \/ err = Nil
    \/ err.phase = "return"
    \/ (err.phase = "input" /\ err.pos > i
        /\ err.class \notin {"ArityMismatch", "VariadicMismatch"})

\* The validation accepted return position j and went on.
PassedReturn(j) ==
    \/ err = Nil
    \/ (err.phase = "return" /\ err.pos > j /\ err.class # "ArityMismatch")

Min(S) == CHOOSE x \in S : \A y \in S : x <= y

(* ---------------------------------------------------------------------- *)
(* C1: the declared variadic parameter.                                    *)
(* ---------------------------------------------------------------------- *)

\* What the claim takes the rule to be: []E, or []J with J an interface
\* and E convertible to J.
ClaimedVariadicOK ==
    \/ SubLast = SliceOf(DeclaredElem)
    \/ /\ Kind(SubLast) = "slice"
       /\ Kind(Elem(SubLast)) = "interface"
       /\ ConvertibleTo(DeclaredElem, Elem(SubLast))

\* C1 as stated: with a declared variadic parameter of element type E, the
\* last position is accepted if the substitute's last parameter is []E or
\* is []J with J of interface kind and E convertible to J, and rejected for
\* every other type.
C1_Original ==
    VariadicChecked => (~VariadicRejected <=> ClaimedVariadicOK)

\* The rule of the code: []E, or []T with E an interface and T convertible
\* to E.
AmendedVariadicOK ==
    \/ SubLast = SliceOf(DeclaredElem)
    \/ /\ Kind(SubLast) = "slice"
       /\ Kind(DeclaredElem) = "interface"
       /\ ConvertibleTo(Elem(SubLast), DeclaredElem)

\* C1, amended: with a declared variadic parameter of element type E, the
\* last position is accepted if the substitute's last parameter is []E, or
\* is []T where E is of interface kind and T is convertible to E; every
\* other type is rejected there, with a failure that names the position and
\* the two types.
C1_VariadicRule ==
    VariadicChecked =>
        /\ ~VariadicRejected <=> AmendedVariadicOK
        /\ VariadicRejected =>
               err = [class |-> "VariadicMismatch", phase |-> "input",
                      pos |-> LastPos, part |-> "",
                      want |-> DeclaredLast, got |-> SubLast]

\* Declared func(...int), substitute func([]interface{}): rejected.
C1_Witness ==
    /\ VariadicChecked
    /\ DeclaredLast = "[]int"
    /\ SubLast = "[]interface{}"
    /\ VariadicRejected

(* ---------------------------------------------------------------------- *)
(* C2: a variadic parameter of interface element type.                     *)
(* ---------------------------------------------------------------------- *)

\* Every position but the last, and the results, are the same types.
OthersIdentical ==
    /\ \A i \in 0..(LastPos - 1) : In(doType, i) = In(methodType, i)
    /\ doType.out = methodType.out

ConcreteSliceForInterfaceVariadic ==
    /\ VariadicChecked
    /\ Kind(DeclaredElem) = "interface"
    /\ Kind(SubLast) = "slice"
    /\ Kind(Elem(SubLast)) # "interface"
    /\ ConvertibleTo(Elem(SubLast), DeclaredElem)
    /\ OthersIdentical

\* C2: when the declared variadic element type is an interface I and the
\* substitute's last parameter is a slice of a concrete type convertible to
\* I, and every other position and the results match, the validation
\* succeeds.
C2_InterfaceVariadicAccepted ==
    ConcreteSliceForInterfaceVariadic => err = Nil

\* Declared func(x, ...interface{}) r, substitute func(x, []int) r.
C2_Witness ==
    /\ ConcreteSliceForInterfaceVariadic
    /\ NumIn(methodType) = 2
    /\ NumOut(methodType) = 1
    /\ DeclaredLast = "[]interface{}"
    /\ SubLast = "[]int"
    /\ err = Nil

(* ---------------------------------------------------------------------- *)
(* C3: positions that are neither interfaces nor maps.                     *)
(* ---------------------------------------------------------------------- *)

\* The declared type d is neither an interface nor a map, and the
\* substitute type s is another type.
StrictDiffers(s, d) == Kind(d) \notin {"interface", "map"} /\ s # d

\* C3 as stated: a substitute type that differs from a declared type of a
\* non-interface, non-map kind is rejected, whatever the position.
C3_Original ==
    Done =>
        ((\/ \E i \in AllInPositions :
                 StrictDiffers(In(doType, i), In(methodType, i))
          \/ \E j \in OutPositions :
                 StrictDiffers(Out(doType, j), Out(methodType, j)))
         => err # Nil)

\* C3, amended: at every position other than the declared variadic
\* parameter, a substitute type that differs from a declared type of a
\* non-interface, non-map kind is rejected, convertible or not: the
\* validation fails at that position or before it.
C3_StrictIdentity ==
    Done =>
        /\ \A i \in InPositions :
               StrictDiffers(In(doType, i), In(methodType, i))
                   => ~PassedInput(i)
        /\ \A j \in OutPositions :
               StrictDiffers(Out(doType, j), Out(methodType, j))
                   => ~PassedReturn(j)

\* Declared func(int), substitute func(MyInt): convertible, same kind,
\* rejected.
C3_Witness ==
    /\ Done
    /\ methodType.in = <<"int">>
    /\ ~IsVariadic(methodType)
    /\ doType.in = <<"MyInt">>
    /\ ConvertibleTo("MyInt", "int")
    /\ ErrAt("input", 0)
    /\ err.class = "TypeMismatch"

(* ---------------------------------------------------------------------- *)
(* C4: positions declared with an interface type.                          *)
(* ---------------------------------------------------------------------- *)

NotConvertible(s, d) == Errorf("NotConvertible", "", d, s)

\* C4: at a parameter position (other than the declared variadic one) or a
\* result position whose declared type is an interface I, the substitute
\* type T is accepted if and only if T is convertible to I, whatever its
\* kind; a T that is not convertible is rejected with the not-convertible
\* failure.
C4_InterfaceWidening ==
    Done =>
        /\ \A i \in InPositions :
               LET d == In(methodType, i)
                   s == In(doType, i)
               IN  Kind(d) = "interface" =>
                       IF ConvertibleTo(s, d)
                       THEN ~ErrAt("input", i)
                       ELSE /\ ~PassedInput(i)
                            /\ ErrAt("input", i) =>
                                   err = WrapAt(NotConvertible(s, d), "input", i)
        /\ \A j \in OutPositions :
               LET d == Out(methodType, j)
                   s == Out(doType, j)
               IN  Kind(d) = "interface" =>
                       IF ConvertibleTo(s, d)
                       THEN ~ErrAt("return", j)
                       ELSE /\ ~PassedReturn(j)
                            /\ ErrAt("return", j) =>
                                   err = WrapAt(NotConvertible(s, d), "return", j)

\* Declared func(interface{}) error, substitute func(int) bool: the
\* parameter is accepted, the result is not.
C4_Witness ==
    /\ Done
    /\ methodType.in = <<"interface{}">>
    /\ doType.in = <<"int">>
    /\ methodType.out = <<"error">>
    /\ doType.out = <<"bool">>
    /\ err = WrapAt(NotConvertible("bool", "error"), "return", 0)

(* ---------------------------------------------------------------------- *)
(* C5: positions where both types are maps.                                *)
(* ---------------------------------------------------------------------- *)

KeyOK(s, d) ==
    IF Kind(Key(d)) = "interface"
    THEN ConvertibleTo(Key(s), Key(d))
    ELSE Key(s) = Key(d)

ElemOK(s, d) ==
    IF Kind(Elem(d)) = "interface"
    THEN ConvertibleTo(Elem(s), Elem(d))
    ELSE Elem(s) = Elem(d)

BothMaps(s, d) == Kind(s) = "map" /\ Kind(d) = "map"

\* C5: where the declared and the substitute type are both maps, the
\* position is accepted if and only if the key passes (convertible to an
\* interface key, identical otherwise) and the element passes (convertible
\* to an interface element, identical otherwise).
C5_MappingLeniency ==
    Done =>
        /\ \A i \in InPositions :
               LET d == In(methodType, i)
                   s == In(doType, i)
               IN  BothMaps(s, d) =>
                       IF KeyOK(s, d) /\ ElemOK(s, d)
                       THEN ~ErrAt("input", i)
                       ELSE /\ ~PassedInput(i)
                            /\ ErrAt("input", i) =>
                                   err.part \in {"map key", "map element"}
        /\ \A j \in OutPositions :
               LET d == Out(methodType, j)
                   s == Out(doType, j)
               IN  BothMaps(s, d) =>
                       IF KeyOK(s, d) /\ ElemOK(s, d)
                       THEN ~ErrAt("return", j)
                       ELSE /\ ~PassedReturn(j)
                            /\ ErrAt("return", j) =>
                                   err.part \in {"map key", "map element"}

\* Declared func(map[interface{}]int), substitute func(map[int]string):
\* the key passes, the element does not.
C5_Witness ==
    /\ Done
    /\ methodType.in = <<"map[interface{}]int">>
    /\ doType.in = <<"map[int]string">>
    /\ KeyOK("map[int]string", "map[interface{}]int")
    /\ err = WrapAt(Errorf("TypeMismatch", "map element", "int", "string"),
                    "input", 0)

(* ---------------------------------------------------------------------- *)
(* C6: the numbers of parameters and of results.                           *)
(* ---------------------------------------------------------------------- *)

\* C6: the validation succeeds only if the two signatures have the same
\* number of parameters and the same number of results; when the numbers
\* of parameters differ, the outcome is the input arity failure naming both
\* numbers, whatever the types, the variadic flags and the results.
C6_Arity ==
    Done =>
        /\ err = Nil => (SameNumIn /\ SameNumOut)
        /\ ~SameNumIn =>
               err = [class |-> "ArityMismatch", phase |-> "input",
                      pos |-> -1, part |-> "",
                      want |-> ToString(NumIn(methodType)),
                      got |-> ToString(NumIn(doType))]

\* A substitute with more parameters than the declared variadic signature,
\* with other results too.
C6_Witness ==
    /\ Done
    /\ NumIn(doType) > NumIn(methodType)
    /\ IsVariadic(methodType)
    /\ ~SameNumOut
    /\ err.class = "ArityMismatch"
    /\ err.phase = "input"
    /\ err.want = "1"
    /\ err.got = "2"

(* ---------------------------------------------------------------------- *)
(* C7: a signature against itself.                                         *)
(* ---------------------------------------------------------------------- *)

\* C7: validating a signature as the substitute against itself as the
\* declared signature succeeds.
C7_Reflexive == (Done /\ doType = methodType) => err = Nil

\* func(...int) error against itself.
C7_Witness ==
    /\ Done
    /\ doType = methodType
    /\ IsVariadic(methodType)
    /\ methodType.in = <<"[]int">>
    /\ methodType.out = <<"error">>
    /\ err = Nil

(* ---------------------------------------------------------------------- *)
(* C8: the failure reported for a parameter of another primitive type.     *)
(* ---------------------------------------------------------------------- *)

FuncIntBool == [in |-> <<"int">>, out |-> <<"bool">>, variadic |-> FALSE]

FuncStringBool == [in |-> <<"string">>, out |-> <<"bool">>, variadic |-> FALSE]

\* C8 as stated: declared func(int) bool, substitute func(string) bool
\* fails with a TypeMismatch at input position 0.
C8_Original ==
    (Done /\ methodType = FuncIntBool /\ doType = FuncStringBool) =>
        (err.class = "TypeMismatch" /\ err.phase = "input" /\ err.pos = 0)

\* C8, amended: declared func(int) bool, substitute func(string) bool fails
\* with a KindMismatch at input position 0 (expected kind int, not string).
\* At the first parameter of a non-variadic declared signature, declared
\* with a non-interface type, a substitute of another kind is reported as
\* a KindMismatch, and a substitute of the same non-map kind but another
\* type as a TypeMismatch.
C8_KindMismatch ==
    (Done /\ SameNumIn /\ NumIn(methodType) > 0 /\ ~IsVariadic(methodType)
          /\ Kind(In(methodType, 0)) # "interface") =>
        LET d == In(methodType, 0)
            s == In(doType, 0)
        IN  /\ Kind(s) # Kind(d) =>
                err = WrapAt(Errorf("KindMismatch", "", Kind(d), Kind(s)),
                             "input", 0)
            /\ (Kind(s) = Kind(d) /\ Kind(d) # "map" /\ s # d) =>
                err = WrapAt(Errorf("TypeMismatch", "", d, s), "input", 0)

C8_Witness ==
    /\ Done
    /\ methodType = FuncIntBool
    /\ doType = FuncStringBool
    /\ err = WrapAt(Errorf("KindMismatch", "", "int", "string"), "input", 0)

(* ---------------------------------------------------------------------- *)
(* C9: which failure is reported.                                          *)
(* ---------------------------------------------------------------------- *)

\* The declared variadic parameter does not accept the substitute's last
\* parameter.
VarBad ==
    /\ SameNumIn
    /\ IsVariadic(methodType)
    /\ ~validateVariadicArg(NumIn(methodType), doType, methodType)

\* The other parameter positions whose types do not match.
InBad ==
    {i \in InPositions : validateArg(In(doType, i), In(methodType, i)) # Nil}

\* The result positions whose types do not match.
OutBad ==
    {j \in OutPositions :
        validateArg(Out(doType, j), Out(methodType, j)) # Nil}

WithVariadic(v) == [doType EXCEPT !.variadic = v]

\* The flags a function type with the substitute's parameters can have.
DoFlags ==
    {v \in BOOLEAN :
        v => (NumIn(doType) > 0
              /\ Kind(In(doType, NumIn(doType) - 1)) = "slice")}

\* C10: the outcome does not depend on the substitute's variadic flag: the
\* substitute with the same parameter and result types and the other flag
\* has the same outcome against the same declared signature.
C10_SubstituteFlagIgnored ==
    Done =>
        \A v \in DoFlags :
            err = ValidateInputAndOutputSig(WithVariadic(v), methodType)

\* Substitute func(...E) against declared func([]E): accepted, as func([]E)
\* is.
C10_Witness ==
    /\ Done
    /\ IsVariadic(doType)
    /\ ~IsVariadic(methodType)
    /\ doType.in = methodType.in
    /\ doType.out = methodType.out
    /\ DoFlags = BOOLEAN
    /\ err = Nil

====
